---- MODULE Spec2Model ----
(***************************************************************************)
(* Model of scripts/build-report-data.ts: the row tokenizer parseCSVRow,   *)
(* the CSV parser parseCSV, and the snapshot builder main/fetchSheetData.  *)
(*                                                                         *)
(* A JavaScript string is a sequence of one-character strings.  JS indices *)
(* are 0-based; the i-th JS character of s is s[i + 1] here.               *)
(***************************************************************************)
EXTENDS Integers, Sequences, FiniteSets, TLC

VARIABLES
    row,        \* parseCSVRow: its argument
    tok,        \* parseCSVRow: its locals i, current, inQuotes, values
    tokPc,      \* parseCSVRow: "idle" | "scan" | "done"
    csvText,    \* parseCSV: its argument
    lines,      \* parseCSV: the retained logical lines
    results,    \* parseCSV: the rows returned
    csvPc,      \* parseCSV: "idle" | "split" | "rows" | "done" | "threw"
    pc,         \* main: where the run is
    cfgIdx,     \* main: 0-based index of the config the for-of loop is at
    sheetsData, \* main: the mapping from source key to table
    thrown,     \* main: the error on its way to the outer catch, or "none"
    exitCode,   \* the code the process ends with once pc is "done" or "exited"
    log,        \* what console.log / console.error have reported
    responses,  \* the bodies the server has returned, by source key
    publicDirExists, \* whether <cwd>/public exists
    artifact,   \* public/report-data.json on disk
    artifact0,  \* public/report-data.json as it was when the run started
    now,        \* main: the Date of line 159, NoDate until it is constructed
    clockReads  \* how many times the run has read the system clock

csvVars == <<csvText, lines, results, csvPc>>
rowVars == <<row, tok, tokPc>>
mainVars == <<pc, cfgIdx, sheetsData, thrown, exitCode, log, responses,
              publicDirExists, artifact, artifact0, now, clockReads>>
vars == <<row, tok, tokPc, csvText, lines, results, csvPc, pc, cfgIdx,
          sheetsData, thrown, exitCode, log, responses, publicDirExists,
          artifact, artifact0, now, clockReads>>

(***************************************************************************)
(* Characters and strings                                                  *)
(***************************************************************************)
Quote == "\""
Comma == ","
LF == "\n"
CR == "\r"
Space == " "

\* The characters String.prototype.trim removes that the model's alphabets hold.
WhiteSpace == {Space, LF, CR, "\t"}

\* s[i] of JavaScript: the character at 0-based index i, or undefined.
Undefined == "undefined"
CharAt(s, i) == IF i >= 0 /\ i < Len(s) THEN s[i + 1] ELSE Undefined

\* String.prototype.trim
trim(s) ==
    LET keep == {p \in 1..Len(s) : s[p] \notin WhiteSpace}
    IN  IF keep = {} THEN <<>>
        ELSE LET lo == CHOOSE p \in keep : \A q \in keep : p <= q
                 hi == CHOOSE p \in keep : \A q \in keep : q <= p
             IN  SubSeq(s, lo, hi)

(***************************************************************************)
(* parseCSVRow (lines 82-107)                                              *)
(***************************************************************************)
\* The locals at entry: values = [], current = "", inQuotes = false, i = 0.
rowInit == [i |-> 0, current |-> <<>>, inQuotes |-> FALSE, values |-> <<>>]

\* A tokenizer that splits on every comma, quoted or not.
rowStepSplitAlways(r, st) ==
    LET char == CharAt(r, st.i)
    IN  IF char = Quote
        THEN IF st.inQuotes /\ CharAt(r, st.i + 1) = Quote
             THEN [st EXCEPT !.current = Append(@, Quote), !.i = @ + 2]
             ELSE [st EXCEPT !.inQuotes = ~@, !.i = @ + 1]
        ELSE IF char = Comma
        THEN [st EXCEPT !.values = Append(@, st.current), !.current = <<>>,
                        !.i = @ + 1]
        ELSE [st EXCEPT !.current = Append(@, char), !.i = @ + 1]

\* A tokenizer that forgets the i++ of the doubled-quote branch.
rowStepNoSkip(r, st) ==
    LET char == CharAt(r, st.i)
    IN  IF char = Quote
        THEN IF st.inQuotes /\ CharAt(r, st.i + 1) = Quote
             THEN [st EXCEPT !.current = Append(@, Quote), !.i = @ + 1]
             ELSE [st EXCEPT !.inQuotes = ~@, !.i = @ + 1]
        ELSE IF char = Comma /\ ~st.inQuotes
        THEN [st EXCEPT !.values = Append(@, st.current), !.current = <<>>,
                        !.i = @ + 1]
        ELSE [st EXCEPT !.current = Append(@, char), !.i = @ + 1]

\* One iteration of the for loop, the i++ of the loop header included.
rowStep(r, st) ==
    LET char == CharAt(r, st.i)
    IN  IF char = Quote
        THEN IF st.inQuotes /\ CharAt(r, st.i + 1) = Quote
             THEN [st EXCEPT !.current = Append(@, Quote), !.i = @ + 2]
             ELSE [st EXCEPT !.inQuotes = ~@, !.i = @ + 1]
        ELSE IF char = Comma /\ ~st.inQuotes
        THEN [st EXCEPT !.values = Append(@, st.current), !.current = <<>>,
                        !.i = @ + 1]
        ELSE [st EXCEPT !.current = Append(@, char), !.i = @ + 1]

\* The loop run to its end from the locals st.
RECURSIVE rowLoop(_, _)
rowLoop(r, st) == IF st.i < Len(r) THEN rowLoop(r, rowStep(r, st)) ELSE st

\* An end of row that gives up a field whose quote was never closed.
rowFinishDropUnclosed(st) ==
    IF st.inQuotes THEN st ELSE [st EXCEPT !.values = Append(@, st.current)]

\* values.push(current) after the loop.
rowFinish(st) == [st EXCEPT !.values = Append(@, st.current)]

parseCSVRow(r) == rowFinish(rowLoop(r, rowInit)).values

(***************************************************************************)
(* parseCSV, line splitting (lines 22-51)                                  *)
(***************************************************************************)
\* The locals at entry: lines = [], currentLine = "", inQuotes = false, i = 0.
lineInit == [i |-> 0, currentLine |-> <<>>, inQuotes |-> FALSE, lines |-> <<>>]

\* if (currentLine) lines.push(currentLine): only the empty line is dropped.
pushLineUntrimmed(ls, currentLine) ==
    IF currentLine # <<>> THEN Append(ls, currentLine) ELSE ls

\* if (currentLine.trim()) lines.push(currentLine)
pushLine(ls, currentLine) ==
    IF trim(currentLine) # <<>> THEN Append(ls, currentLine) ELSE ls

\* A splitter that ends a line at every line feed, quoted or not.
lineStepSplitQuotedLF(text, st) ==
    LET char == CharAt(text, st.i)
    IN  IF char = Quote
        THEN IF st.inQuotes /\ CharAt(text, st.i + 1) = Quote
             THEN [st EXCEPT !.currentLine = Append(@, Quote), !.i = @ + 2]
             ELSE [st EXCEPT !.inQuotes = ~@, !.currentLine = Append(@, char),
                             !.i = @ + 1]
        ELSE IF char = LF
        THEN [st EXCEPT !.lines = pushLine(@, st.currentLine),
                        !.currentLine = <<>>, !.i = @ + 1]
        ELSE IF char = CR /\ ~st.inQuotes
        THEN [st EXCEPT !.i = @ + 1]
        ELSE [st EXCEPT !.currentLine = Append(@, char), !.i = @ + 1]

\* A splitter without the branch that skips carriage returns.
lineStepKeepCR(text, st) ==
    LET char == CharAt(text, st.i)
    IN  IF char = Quote
        THEN IF st.inQuotes /\ CharAt(text, st.i + 1) = Quote
             THEN [st EXCEPT !.currentLine = Append(@, Quote), !.i = @ + 2]
             ELSE [st EXCEPT !.inQuotes = ~@, !.currentLine = Append(@, char),
                             !.i = @ + 1]
        ELSE IF char = LF /\ ~st.inQuotes
        THEN [st EXCEPT !.lines = pushLine(@, st.currentLine),
                        !.currentLine = <<>>, !.i = @ + 1]
        ELSE [st EXCEPT !.currentLine = Append(@, char), !.i = @ + 1]

\* One iteration of the for loop, the i++ of the loop header included.
lineStep(text, st) ==
    LET char == CharAt(text, st.i)
    IN  IF char = Quote
        THEN IF st.inQuotes /\ CharAt(text, st.i + 1) = Quote
             THEN [st EXCEPT !.currentLine = Append(@, Quote), !.i = @ + 2]
             ELSE [st EXCEPT !.inQuotes = ~@, !.currentLine = Append(@, char),
                             !.i = @ + 1]
        ELSE IF char = LF /\ ~st.inQuotes
        THEN [st EXCEPT !.lines = pushLine(@, st.currentLine),
                        !.currentLine = <<>>, !.i = @ + 1]
        ELSE IF char = CR /\ ~st.inQuotes
        THEN [st EXCEPT !.i = @ + 1]
        ELSE [st EXCEPT !.currentLine = Append(@, char), !.i = @ + 1]

RECURSIVE lineLoop(_, _)
lineLoop(text, st) ==
    IF st.i < Len(text) THEN lineLoop(text, lineStep(text, st)) ELSE st

\* Lines 49-51: the last line is pushed when it is not blank.
lineFinish(st) == pushLine(st.lines, st.currentLine)

splitLines(text) == lineFinish(lineLoop(text, lineInit))

(***************************************************************************)
(* parseCSV, row building (lines 53-79)                                    *)
(*                                                                         *)
(* A row object is the sequence of its own properties [k, v] in insertion  *)
(* order.                                                                  *)
(***************************************************************************)
ProtoName == <<"_", "_", "p", "r", "o", "t", "o", "_", "_">>

\* An assignment that adds an entry even when the name has one.
setPropertyAppend(obj, header, value) ==
    IF header = ProtoName THEN obj
    ELSE Append(obj, [k |-> header, v |-> value])

\* obj[header] = value on a plain object (line 69).  Assigning a string to
\* __proto__ runs the setter of Object.prototype, which ignores a value that
\* is neither an object nor null: no own property is created.
setProperty(obj, header, value) ==
    IF header = ProtoName THEN obj
    ELSE IF \E p \in 1..Len(obj) : obj[p].k = header
    THEN [p \in 1..Len(obj) |->
            IF obj[p].k = header THEN [k |-> header, v |-> value] ELSE obj[p]]
    ELSE Append(obj, [k |-> header, v |-> value])

\* values[j]?.trim() ?? "" (line 66), j 0-based.
valueAt(values, j) == IF j < Len(values) THEN trim(values[j + 1]) ELSE <<>>

\* An inner loop body that keeps the first value stored under a name.
zipStepKeepFirst(headers, values, j, acc) ==
    LET header == trim(headers[j + 1])
        value == valueAt(values, j)
    IN  IF header # <<>> /\ value # <<>>
        THEN [obj |-> IF \E p \in 1..Len(acc.obj) : acc.obj[p].k = header
                      THEN acc.obj
                      ELSE setProperty(acc.obj, header, value),
              rowHasData |-> TRUE]
        ELSE acc

\* The body of the inner loop (lines 65-71) for one j.
zipStep(headers, values, j, acc) ==
    LET header == trim(headers[j + 1])
        value == valueAt(values, j)
    IN  IF header # <<>> /\ value # <<>>
        THEN [obj |-> setProperty(acc.obj, header, value), rowHasData |-> TRUE]
        ELSE acc

\* for (let j = 0; j < headers.length; j++) (line 64)
RECURSIVE zipLoop(_, _, _, _)
zipLoop(headers, values, j, acc) ==
    IF j < Len(headers)
    THEN zipLoop(headers, values, j + 1, zipStep(headers, values, j, acc))
    ELSE acc

\* Lines 59-76 for one data line: the row is pushed when rowHasData.
rowOfLine(headers, line, res) ==
    LET acc == zipLoop(headers, parseCSVRow(line), 0,
                       [obj |-> <<>>, rowHasData |-> FALSE])
    IN  IF acc.rowHasData THEN Append(res, acc.obj) ELSE res

\* for (let i = 1; i < lines.length; i++) (line 58)
RECURSIVE rowsLoop(_, _, _, _)
rowsLoop(ls, headers, i, res) ==
    IF i < Len(ls)
    THEN rowsLoop(ls, headers, i + 1, rowOfLine(headers, ls[i + 1], res))
    ELSE res

\* The guard of line 53 left out.
tooFewLinesNever(ls) == FALSE

\* if (lines.length < 2) return [] (line 53)
tooFewLines(ls) == Len(ls) < 2

\* Lines 53-79.  parseCSVRow(lines[0]) of an empty lines array is
\* parseCSVRow(undefined), whose row.length throws a TypeError.
buildRows(ls) ==
    IF tooFewLines(ls) THEN [threw |-> FALSE, rows |-> <<>>]
    ELSE IF Len(ls) = 0 THEN [threw |-> TRUE, rows |-> <<>>]
    ELSE [threw |-> FALSE, rows |-> rowsLoop(ls, parseCSVRow(ls[1]), 1, <<>>)]

parseCSV(text) == buildRows(splitLines(text))

(***************************************************************************)
(* The tokenizer run step by step on one line                              *)
(***************************************************************************)
MaxRow == 6
RowAlphabet == {"a", "b", Comma, Quote}
Strings(alphabet, n) == UNION {[1..k -> alphabet] : k \in 0..n}

IdleCSV ==
    /\ csvText = <<>>
    /\ lines = <<>>
    /\ results = <<>>
    /\ csvPc = "idle"

IdleRow ==
    /\ row = <<>>
    /\ tok = rowInit
    /\ tokPc = "idle"

NoFile == [kind |-> "none"]
NoDate == [kind |-> "unset"]
\* The code of a process that ends by itself, main having returned.
normalExitCode == 0

IdleMain ==
    /\ pc = "idle"
    /\ cfgIdx = 0
    /\ sheetsData = <<>>
    /\ thrown = "none"
    /\ exitCode = normalExitCode
    /\ log = <<>>
    /\ responses = <<>>
    /\ publicDirExists = FALSE
    /\ artifact = NoFile
    /\ artifact0 = NoFile
    /\ now = NoDate
    /\ clockReads = 0

InitRow ==
    /\ row \in Strings(RowAlphabet, MaxRow)
    /\ tok = rowInit
    /\ tokPc = "scan"
    /\ IdleCSV
    /\ IdleMain

RowScan ==
    /\ tokPc = "scan"
    /\ tok.i < Len(row)
    /\ tok' = rowStep(row, tok)
    /\ UNCHANGED <<row, tokPc, csvVars, mainVars>>

RowReturn ==
    /\ tokPc = "scan"
    /\ ~(tok.i < Len(row))
    /\ tok' = rowFinish(tok)
    /\ tokPc' = "done"
    /\ UNCHANGED <<row, csvVars, mainVars>>

NextRow == RowScan \/ RowReturn

SpecRow == InitRow /\ [][NextRow]_vars

(***************************************************************************)
(* parseCSV applied to a CSV text: a header line followed by a body        *)
(***************************************************************************)
MaxBody == 5
CsvAlphabet == {"a", Comma, Quote, LF, CR, Space}
HeaderPrefixes ==
    { <<>>,
      <<"a", LF>>,
      <<"a", Comma, "b", CR, LF>>,
      <<"a", Comma, "a", LF>>,
      ProtoName \o <<Comma, "b", LF>> }

InitCSV ==
    /\ csvText \in {p \o b : p \in HeaderPrefixes,
                             b \in Strings(CsvAlphabet, MaxBody)}
    /\ lines = <<>>
    /\ results = <<>>
    /\ csvPc = "split"
    /\ IdleRow
    /\ IdleMain

SplitLines ==
    /\ csvPc = "split"
    /\ lines' = splitLines(csvText)
    /\ csvPc' = "rows"
    /\ UNCHANGED <<csvText, results, rowVars, mainVars>>

BuildRows ==
    /\ csvPc = "rows"
    /\ LET r == buildRows(lines)
       IN  /\ results' = r.rows
           /\ csvPc' = IF r.threw THEN "threw" ELSE "done"
    /\ UNCHANGED <<csvText, lines, rowVars, mainVars>>

NextCSV == SplitLines \/ BuildRows

SpecCSV == InitCSV /\ [][NextCSV]_vars

(***************************************************************************)
(* fetchSheetData and main (lines 112-208)                                 *)
(***************************************************************************)
SHEET_CONFIGS ==
    << [key |-> "output", name |-> "output", gid |-> "0"],
       [key |-> "ebitda_timeseries", name |-> "EBITDA Timeseries",
        gid |-> "845629928"],
       [key |-> "revenue_timeseries", name |-> "Revenue Timeseries",
        gid |-> "755104021"],
       [key |-> "employee_timeseries", name |-> "Employee timeseries",
        gid |-> "12460386"],
       [key |-> "ev_timeseries", name |-> "EV timeseries",
        gid |-> "790875073"],
       [key |-> "mafia", name |-> "Mafia", gid |-> "1431246161"],
       [key |-> "founders", name |-> "founders", gid |-> "275207722"],
       [key |-> "all_vc_rounds", name |-> "All VC Rounds",
        gid |-> "62762089"] >>

SHEET_ID == "1_DZZfguLRiZe4MBg78Ah-ftSuaRMfuj5QlieKsttyGg"

\* The config the loop is at.
config == SHEET_CONFIGS[cfgIdx + 1]

\* The bodies the export endpoint may return: a header with one data line,
\* and a header alone.
ResponseTexts == { <<"a", LF, "a">>, <<"a">> }

(***************************************************************************)
(* The clock.  A Date is an instant, held here as its UTC calendar fields  *)
(* (to the hour) together with offset, the hours the machine's time zone   *)
(* is ahead of UTC at that instant.  getFullYear and getMonth read it in   *)
(* local time, toISOString renders it in UTC.                              *)
(***************************************************************************)
isLeapYear(y) == (y % 4 = 0 /\ y % 100 # 0) \/ y % 400 = 0

daysInMonth(y, m) ==
    IF m = 2 THEN (IF isLeapYear(y) THEN 29 ELSE 28)
    ELSE IF m \in {4, 6, 9, 11} THEN 30 ELSE 31

\* The calendar fields of the instant d in the machine's local time.
localFields(d) ==
    LET h == d.hour + d.offset
    IN  IF h >= 24
        THEN IF d.day < daysInMonth(d.year, d.month)
             THEN [year |-> d.year, month |-> d.month, day |-> d.day + 1,
                   hour |-> h - 24]
             ELSE IF d.month < 12
             THEN [year |-> d.year, month |-> d.month + 1, day |-> 1,
                   hour |-> h - 24]
             ELSE [year |-> d.year + 1, month |-> 1, day |-> 1,
                   hour |-> h - 24]
        ELSE IF h < 0
        THEN IF d.day > 1
             THEN [year |-> d.year, month |-> d.month, day |-> d.day - 1,
                   hour |-> h + 24]
             ELSE IF d.month > 1
             THEN [year |-> d.year, month |-> d.month - 1,
                   day |-> daysInMonth(d.year, d.month - 1), hour |-> h + 24]
             ELSE [year |-> d.year - 1, month |-> 12, day |-> 31,
                   hour |-> h + 24]
        ELSE [year |-> d.year, month |-> d.month, day |-> d.day, hour |-> h]

\* now.getFullYear() and now.getMonth(): local time, the month 0-based.
getFullYear(d) == localFields(d).year
getMonth(d) == localFields(d).month - 1

\* String(n) of a non-negative integer: its decimal digits.
digit(k) == <<"0", "1", "2", "3", "4", "5", "6", "7", "8", "9">>[k + 1]
RECURSIVE numberToString(_)
numberToString(n) ==
    IF n < 10 THEN <<digit(n)>>
    ELSE numberToString(n \div 10) \o <<digit(n % 10)>>

\* Two digits, with a leading zero (the fields of an ISO string).
pad2(n) == <<digit(n \div 10), digit(n % 10)>>

\* now.toISOString(): YYYY-MM-DDTHH:mm:ss.sssZ, in UTC.
toISOString(d) ==
    numberToString(d.year) \o <<"-">> \o pad2(d.month) \o <<"-">>
        \o pad2(d.day) \o <<"T">> \o pad2(d.hour)
        \o <<":", "0", "0", ":", "0", "0", ".", "0", "0", "0", "Z">>

\* Math.ceil(a / b) for a >= 0 and b > 0.
ceilOfQuotient(a, b) == IF a % b = 0 THEN a \div b ELSE (a \div b) + 1

\* A quarter computed from the 0-based month without the + 1.
quarterNumberOfIndex(d) == ceilOfQuotient(getMonth(d), 3)

\* Math.ceil((now.getMonth() + 1) / 3) (line 161).
quarterNumber(d) == ceilOfQuotient(getMonth(d) + 1, 3)

\* `${year}Q${quarterNumber}` (line 162).
reportingQuarter(d) ==
    numberToString(getFullYear(d)) \o <<"Q">>
        \o numberToString(quarterNumber(d))

\* The object of lines 164-177.
buildOutput(sd, date) ==
    [meta |-> [generated_at |-> toISOString(date),
               source_sheet_id |-> SHEET_ID,
               reporting_quarter |-> reportingQuarter(date),
               reporting_year |-> getFullYear(date),
               reporting_quarter_number |-> quarterNumber(date),
               schema_version |-> "2.0"],
     sheets |-> sd,
     config |-> [schema_version |-> "1.0"]]

\* The clock values and time zones of the runs explored: both ends and the
\* middle of every month of two years, one of them a leap year, on machines
\* behind, at and ahead of UTC.
ClockYears == {2027, 2028}
TimeZones == {0 - 8, 0, 9}
DateOf(y, m, d, h, z) ==
    [kind |-> "date", year |-> y, month |-> m, day |-> d, hour |-> h,
     offset |-> z]
MonthsOf(y) == {[year |-> y, month |-> m] : m \in 1..12}
AllClocks ==
    UNION { { DateOf(ym.year, ym.month, d, h, z) :
                  d \in {1, 15, daysInMonth(ym.year, ym.month)},
                  h \in {0, 12, 23}, z \in TimeZones } :
            ym \in UNION {MonthsOf(y) : y \in ClockYears} }
\* Two of them: a day in the middle of a quarter at UTC, and the last hour
\* of a year on a machine ahead of UTC.
SampleClocks ==
    { DateOf(2027, 8, 15, 12, 0), DateOf(2027, 12, 31, 23, 9) }

\* What the disk may hold when a run starts (DiskStates): nothing, an empty
\* public directory, or the snapshot of an earlier run.
PriorSnapshot ==
    [kind |-> "snapshot",
     content |-> buildOutput(
                     "output" :> << <<[k |-> <<"b">>, v |-> <<"b">>]>> >>,
                     DateOf(2026, 11, 1, 6, 0))]
Truncated == [kind |-> "partial"]
DiskStates ==
    { [dir |-> FALSE, file |-> NoFile],
      [dir |-> TRUE, file |-> NoFile],
      [dir |-> TRUE, file |-> PriorSnapshot] }

\* An assignment that always writes the first configured key.
storeSheetUnderFirstKey(sd, key, rows) == (SHEET_CONFIGS[1].key :> rows) @@ sd

\* sheetsData[key] = rows
storeSheet(sd, key, rows) == (key :> rows) @@ sd

\* An inner catch that reports the error and throws it again.
rethrowFetchError(sd, key, error) == [sheetsData |-> sd, thrown |-> error]

\* The inner catch (lines 153-156): the key gets the empty table, the error
\* is dropped and the loop goes on.
catchFetchError(sd, key, error) ==
    [sheetsData |-> storeSheet(sd, key, <<>>), thrown |-> "none"]

\* An outer catch that only reports the error.
exitCodeStaysZero == normalExitCode

\* process.exit(1) of the outer catch (line 204).
fatalExitCode == 1

Init ==
    /\ pc = "loop"
    /\ cfgIdx = 0
    /\ sheetsData = <<>>
    /\ thrown = "none"
    /\ exitCode = normalExitCode
    /\ log = <<>>
    /\ responses = <<>>
    /\ \E disk \in DiskStates :
          /\ publicDirExists = disk.dir
          /\ artifact = disk.file
          /\ artifact0 = disk.file
    /\ now = NoDate
    /\ clockReads = 0
    /\ IdleRow
    /\ IdleCSV

\* for (const config of SHEET_CONFIGS): fetchSheetData is called up to its
\* await fetch(url) (lines 150-152, 115-122).  Its first statement reads the
\* clock: cacheBuster = Date.now() (line 115).
FetchStart ==
    /\ pc = "loop"
    /\ cfgIdx < Len(SHEET_CONFIGS)
    /\ clockReads' = clockReads + 1
    /\ log' = Append(log, [event |-> "fetching", name |-> config.name])
    /\ pc' = "fetch"
    /\ UNCHANGED <<cfgIdx, sheetsData, thrown, exitCode, responses,
                   publicDirExists, artifact, artifact0, now,
                   rowVars, csvVars>>

\* An error thrown inside the inner try block goes to the inner catch.
ThrowInLoop(error) ==
    /\ thrown' = error
    /\ pc' = "inner_catch"
    /\ UNCHANGED <<cfgIdx, sheetsData, exitCode, log, responses,
                   publicDirExists, artifact, artifact0, now, clockReads,
                   rowVars, csvVars>>

\* fetch(url) rejects: a network failure (line 122).
FetchRejects ==
    /\ pc = "fetch"
    /\ ThrowInLoop("network")

\* fetch(url) resolves with a response whose ok is false: line 124 throws.
FetchNotOk ==
    /\ pc = "fetch"
    /\ ThrowInLoop("status")

\* fetch(url) resolves with an ok response: await response.text() (line 127).
FetchOk ==
    /\ pc = "fetch"
    /\ pc' = "text"
    /\ UNCHANGED <<cfgIdx, sheetsData, thrown, exitCode, log, responses,
                   publicDirExists, artifact, artifact0, now, clockReads,
                   rowVars, csvVars>>

\* response.text() rejects: the body cannot be read (line 127).
TextRejects ==
    /\ pc = "text"
    /\ ThrowInLoop("body")

\* An inner catch that tries the same source again.
InnerCatchRetry ==
    /\ pc = "inner_catch"
    /\ log' = Append(log, [event |-> "fetch_failed", name |-> config.name])
    /\ thrown' = "none"
    /\ pc' = "loop"
    /\ UNCHANGED <<cfgIdx, sheetsData, exitCode, responses, publicDirExists,
                   artifact, artifact0, now, clockReads, rowVars, csvVars>>

\* The inner catch (lines 153-156), then the next turn of the loop.
InnerCatch ==
    /\ pc = "inner_catch"
    /\ LET r == catchFetchError(sheetsData, config.key, thrown)
       IN  /\ log' = Append(log, [event |-> "fetch_failed",
                                  name |-> config.name])
           /\ sheetsData' = r.sheetsData
           /\ thrown' = r.thrown
           /\ IF r.thrown = "none"
              THEN cfgIdx' = cfgIdx + 1 /\ pc' = "loop"
              ELSE cfgIdx' = cfgIdx /\ pc' = "catch"
    /\ UNCHANGED <<exitCode, responses, publicDirExists, artifact, artifact0,
                   now, clockReads,
                   rowVars, csvVars>>

\* response.text() resolves: lines 128-139 and the assignment of line 152.
TextResolves ==
    /\ pc = "text"
    /\ \E text \in ResponseTexts :
          LET allRows == parseCSV(text).rows
          IN  /\ responses' = (config.key :> text) @@ responses
              /\ log' = Append(log, [event |-> "rows", name |-> config.name,
                                     count |-> Len(allRows)])
              /\ sheetsData' = storeSheet(sheetsData, config.key, allRows)
    /\ cfgIdx' = cfgIdx + 1
    /\ pc' = "loop"
    /\ UNCHANGED <<thrown, exitCode, publicDirExists, artifact, artifact0,
                   now, clockReads,
                   rowVars, csvVars>>

\* The loop is over: now = new Date() (line 159) reads the clock, which
\* shows one of the values of clocks; then lines 160-180, up to
\* existsSync(publicDir).
ReadClock(clocks) ==
    /\ pc = "loop"
    /\ cfgIdx = Len(SHEET_CONFIGS)
    /\ \E date \in clocks : now' = date
    /\ clockReads' = clockReads + 1
    /\ pc' = "mkdir"
    /\ UNCHANGED <<cfgIdx, sheetsData, thrown, exitCode, log, responses,
                   publicDirExists, artifact, artifact0,
                   rowVars, csvVars>>

LoopDone == ReadClock(SampleClocks)

\* The same step on a machine whose clock and time zone are anything.
LoopDoneAnyClock == ReadClock(AllClocks)

\* existsSync(publicDir) is true.
DirExists ==
    /\ pc = "mkdir"
    /\ publicDirExists
    /\ pc' = "write"
    /\ UNCHANGED <<cfgIdx, sheetsData, thrown, exitCode, log, responses,
                   publicDirExists, artifact, artifact0, now, clockReads,
                   rowVars, csvVars>>

\* mkdirSync(publicDir) succeeds.
MkdirOk ==
    /\ pc = "mkdir"
    /\ ~publicDirExists
    /\ publicDirExists' = TRUE
    /\ pc' = "write"
    /\ UNCHANGED <<cfgIdx, sheetsData, thrown, exitCode, log, responses,
                   artifact, artifact0, now, clockReads,
                   rowVars, csvVars>>

\* mkdirSync(publicDir) throws.
MkdirFails ==
    /\ pc = "mkdir"
    /\ ~publicDirExists
    /\ thrown' = "mkdir"
    /\ pc' = "catch"
    /\ UNCHANGED <<cfgIdx, sheetsData, exitCode, log, responses,
                   publicDirExists, artifact, artifact0, now, clockReads,
                   rowVars, csvVars>>

\* JSON.stringify(output) throws (line 185): nothing is written.
StringifyFails ==
    /\ pc = "write"
    /\ thrown' = "stringify"
    /\ pc' = "catch"
    /\ UNCHANGED <<cfgIdx, sheetsData, exitCode, log, responses,
                   publicDirExists, artifact, artifact0, now, clockReads,
                   rowVars, csvVars>>

\* A write that keeps the tables the file already has.
mergeIntoFile(old, out) ==
    IF old.kind = "snapshot"
    THEN [kind |-> "snapshot",
          content |-> [out EXCEPT !.sheets = old.content.sheets @@ out.sheets]]
    ELSE [kind |-> "snapshot", content |-> out]

\* What writeFileSync leaves in the file: the new content replaces the old.
writeFileSync(old, out) == [kind |-> "snapshot", content |-> out]

\* writeFileSync(outputPath, JSON.stringify(output)) succeeds (line 185).
WriteOk ==
    /\ pc = "write"
    /\ artifact' = writeFileSync(artifact, buildOutput(sheetsData, now))
    /\ pc' = "summary"
    /\ UNCHANGED <<cfgIdx, sheetsData, thrown, exitCode, log, responses,
                   publicDirExists, artifact0, now, clockReads,
                   rowVars, csvVars>>

\* writeFileSync throws: the file could not be opened and is as it was, or
\* it was opened (and so truncated) and not written to its end.
WriteFails ==
    /\ pc = "write"
    /\ artifact' \in {artifact, Truncated}
    /\ thrown' = "write"
    /\ pc' = "catch"
    /\ UNCHANGED <<cfgIdx, sheetsData, exitCode, log, responses,
                   publicDirExists, artifact0, now, clockReads,
                   rowVars, csvVars>>

\* Lines 187-201: the summary is reported, main returns, the process ends.
Summary ==
    /\ pc = "summary"
    /\ log' = Append(log, [event |-> "cache_complete"])
    /\ pc' = "done"
    /\ UNCHANGED <<cfgIdx, sheetsData, thrown, exitCode, responses,
                   publicDirExists, artifact, artifact0, now, clockReads,
                   rowVars, csvVars>>

\* The outer catch (lines 202-205).
Catch ==
    /\ pc = "catch"
    /\ log' = Append(log, [event |-> "cache_failed", err |-> thrown])
    /\ exitCode' = fatalExitCode
    /\ pc' = "exited"
    /\ UNCHANGED <<cfgIdx, sheetsData, thrown, responses, publicDirExists,
                   artifact, artifact0, now, clockReads,
                   rowVars, csvVars>>

Next ==
    \/ FetchStart
    \/ FetchRejects
    \/ FetchNotOk
    \/ FetchOk
    \/ TextRejects
    \/ InnerCatch
    \/ TextResolves
    \/ LoopDone
    \/ DirExists
    \/ MkdirOk
    \/ MkdirFails
    \/ StringifyFails
    \/ WriteOk
    \/ WriteFails
    \/ Summary
    \/ Catch

Spec == Init /\ [][Next]_vars

\* A run is one thread of control: main goes on to its next statement as
\* long as it has one, and every fetch and every body read that is awaited
\* settles, so a step that stays possible is taken.
FairSpec == Spec /\ WF_vars(Next)

\* The runs of a machine that cannot reach the export endpoint (every fetch
\* is rejected or answered with an error status), at any clock value and in
\* any time zone.
NextMeta ==
    \/ FetchStart
    \/ FetchRejects
    \/ FetchNotOk
    \/ InnerCatch
    \/ LoopDoneAnyClock
    \/ DirExists
    \/ MkdirOk
    \/ MkdirFails
    \/ StringifyFails
    \/ WriteOk
    \/ WriteFails
    \/ Summary
    \/ Catch

SpecMeta == Init /\ [][NextMeta]_vars

(***************************************************************************)
(* Quoted regions, stated on the text alone: a character is inside a       *)
(* quoted region when an odd number of quote characters precede it.        *)
(***************************************************************************)
QuotesBefore(s, p) == Cardinality({q \in 1..(p - 1) : s[q] = Quote})
InQuotedRegion(s, p) == QuotesBefore(s, p) % 2 = 1
UnquotedAt(s, ch) == {p \in 1..Len(s) : s[p] = ch /\ ~InQuotedRegion(s, p)}
QuotedAt(s, ch) == {p \in 1..Len(s) : s[p] = ch /\ InQuotedRegion(s, p)}

\* The occurrences of ch in the strings of the sequence fs.
Occurrences(fs, ch) ==
    UNION {{<<f, p>> : p \in {q \in 1..Len(fs[f]) : fs[f][q] = ch}} :
             f \in 1..Len(fs)}

\* C9: parseCSVRow returns 1 + (number of commas outside quoted regions)
\* fields, so at least one; every comma inside a quoted region is content of
\* a field; and the line "a,b" (quoted) yields the single field a,b.
C9_SplitOnUnquotedCommas ==
    tokPc = "done" =>
        /\ Len(tok.values) = 1 + Cardinality(UnquotedAt(row, Comma))
        /\ Len(tok.values) >= 1
        /\ Cardinality(Occurrences(tok.values, Comma))
             = Cardinality(QuotedAt(row, Comma))
        /\ (row = <<Quote, "a", Comma, "b", Quote>>
              => tok.values = << <<"a", Comma, "b">> >>)

C9_Witness ==
    /\ tokPc = "done"
    /\ row = <<Quote, "a", Comma, "b", Quote>>
    /\ tok.values = << <<"a", Comma, "b">> >>

\* C10: in quoted mode a quote followed by a quote appends one quote to the
\* current field, consumes both characters and stays in quoted mode; a quote
\* in quoted mode not followed by a quote leaves quoted mode and adds
\* nothing; and the line "a""b" (quoted) yields the single field a"b.
C10_QuoteInQuotedMode ==
    (tokPc = "scan" /\ tok.i < Len(row) /\ tok.inQuotes
       /\ CharAt(row, tok.i) = Quote)
    => IF CharAt(row, tok.i + 1) = Quote
       THEN /\ tok'.current = Append(tok.current, Quote)
            /\ tok'.i = tok.i + 2
            /\ tok'.inQuotes
            /\ tok'.values = tok.values
       ELSE /\ tok'.current = tok.current
            /\ tok'.i = tok.i + 1
            /\ ~tok'.inQuotes
            /\ tok'.values = tok.values

C10_Example ==
    (tokPc = "done" /\ row = <<Quote, "a", Quote, Quote, "b", Quote>>)
    => tok.values = << <<"a", Quote, "b">> >>

C10_DoubledQuote == [][C10_QuoteInQuotedMode]_vars /\ []C10_Example

C10_Witness ==
    /\ tokPc = "done"
    /\ row = <<Quote, "a", Quote, Quote, "b", Quote>>
    /\ tok.values = << <<"a", Quote, "b">> >>

(***************************************************************************)
(* Properties of parseCSV                                                  *)
(***************************************************************************)
\* The n-th smallest element of a finite set of integers.
Nth(S, n) == CHOOSE x \in S : Cardinality({y \in S : y < x}) = n - 1
Chars(s) == {s[p] : p \in 1..Len(s)}
HasKey(obj, key) == \E p \in 1..Len(obj) : obj[p].k = key
ValueOf(obj, key) == obj[CHOOSE p \in 1..Len(obj) : obj[p].k = key].v

\* The logical lines of a text, stated on the text alone: they are separated
\* by the line feeds outside quoted regions, and one is retained when it
\* holds a character that is not white space.
LineStarts(text) == {1} \cup {p + 1 : p \in UnquotedAt(text, LF)}
LineEnd(text, s) ==
    LET after == {p \in UnquotedAt(text, LF) : p >= s}
    IN  IF after = {} THEN Len(text)
        ELSE (CHOOSE p \in after : \A q \in after : p <= q) - 1
RetainedStarts(text) ==
    {s \in LineStarts(text) :
        \E q \in s..LineEnd(text, s) : text[q] \notin WhiteSpace}
RetainedCount(text) == Cardinality(RetainedStarts(text))

\* A text made of one header line without quotes, a line feed, and one record
\* that is a single quoted field: quote, content, quote.
HeaderEnd(text) ==
    LET lfs == {p \in 1..Len(text) : text[p] = LF}
    IN  IF lfs = {} THEN 0 ELSE CHOOSE p \in lfs : \A q \in lfs : p <= q
HeaderLine(text) == SubSeq(text, 1, HeaderEnd(text) - 1)
Record(text) == SubSeq(text, HeaderEnd(text) + 1, Len(text))
FirstHeader(text) ==
    LET h == HeaderLine(text)
        cs == {p \in 1..Len(h) : h[p] = Comma}
    IN  trim(IF cs = {} THEN h
             ELSE SubSeq(h, 1, (CHOOSE p \in cs : \A q \in cs : p <= q) - 1))
IsQuotedCellText(text) ==
    /\ HeaderEnd(text) > 1
    /\ Quote \notin Chars(HeaderLine(text))
    /\ FirstHeader(text) # <<>>
    /\ Len(Record(text)) >= 2
    /\ Head(Record(text)) = Quote
    /\ Record(text)[Len(Record(text))] = Quote
CellContent(text) == SubSeq(Record(text), 2, Len(Record(text)) - 1)

\* A line feed of s that lies between two characters that are not white space.
HasInnerLF(s) ==
    \E p \in 1..Len(s) :
        /\ s[p] = LF
        /\ \E q \in 1..(p - 1) : s[q] \notin WhiteSpace
        /\ \E q \in (p + 1)..Len(s) : s[q] \notin WhiteSpace

\* The one-row table that stores value under header (nothing is stored under
\* the name __proto__, see C6).
OneRow(header, value) ==
    << IF header = ProtoName THEN <<>> ELSE <<[k |-> header, v |-> value]>> >>

\* C1 as stated: a quoted cell that contains a line feed gives exactly one
\* row, and the value stored for the cell contains the line feed.
C1_Original ==
    (/\ csvPc = "done"
     /\ IsQuotedCellText(csvText)
     /\ FirstHeader(csvText) # ProtoName
     /\ Quote \notin Chars(CellContent(csvText))
     /\ LF \in Chars(CellContent(csvText)))
    => /\ Len(results) = 1
       /\ HasKey(results[1], FirstHeader(csvText))
       /\ LF \in Chars(ValueOf(results[1], FirstHeader(csvText)))

\* C1 amended: a line feed inside a quoted region never ends a logical line,
\* so a table has at most as many rows as its text has line feeds outside
\* quoted regions; a record that is one quoted cell holding a line feed is
\* one logical line and gives at most one row, never two; the value stored
\* is the trimmed content of the cell, so it contains the line feed when the
\* line feed lies between two characters that are not white space, and a
\* cell of white space only gives no row.
C1_QuotedNewlineIsContent ==
    /\ csvPc \in {"rows", "done"} =>
          Len(lines) <= 1 + Cardinality(UnquotedAt(csvText, LF))
    /\ csvPc = "done" => Len(results) <= Cardinality(UnquotedAt(csvText, LF))
    /\ (/\ csvPc = "done"
        /\ IsQuotedCellText(csvText)
        /\ Quote \notin Chars(CellContent(csvText))
        /\ LF \in Chars(CellContent(csvText)))
       => /\ Len(lines) = 2
          /\ IF trim(CellContent(csvText)) = <<>>
             THEN results = <<>>
             ELSE results = OneRow(FirstHeader(csvText),
                                   trim(CellContent(csvText)))
          /\ (HasInnerLF(CellContent(csvText))
                /\ FirstHeader(csvText) # ProtoName)
             => LF \in Chars(ValueOf(results[1], FirstHeader(csvText)))

C1_Witness ==
    /\ csvPc = "done"
    /\ csvText = <<"a", LF, Quote, "a", LF, "a", Quote>>
    /\ results = << <<[k |-> <<"a">>, v |-> <<"a", LF, "a">>]>> >>

\* The content of a quoted field in which every quote is doubled, and the
\* value it stands for: each doubled quote replaced by one quote.
RECURSIVE WellEscaped(_)
WellEscaped(e) ==
    IF e = <<>> THEN TRUE
    ELSE IF Head(e) = Quote
    THEN Len(e) >= 2 /\ e[2] = Quote /\ WellEscaped(SubSeq(e, 3, Len(e)))
    ELSE WellEscaped(Tail(e))
RECURSIVE Unescape(_)
Unescape(e) ==
    IF e = <<>> THEN <<>>
    ELSE IF Head(e) = Quote
    THEN <<Quote>> \o Unescape(SubSeq(e, 3, Len(e)))
    ELSE <<Head(e)>> \o Unescape(Tail(e))

\* C2: a data cell that is a quoted field containing doubled quotes is stored
\* with each doubled quote replaced by one quote, and a comma after a doubled
\* quote inside the field stays in the cell: the table is the one row that
\* stores the unescaped content under the first header.
C2_EscapedQuotes ==
    (/\ csvPc = "done"
     /\ IsQuotedCellText(csvText)
     /\ FirstHeader(csvText) # ProtoName
     /\ Quote \in Chars(CellContent(csvText))
     /\ WellEscaped(CellContent(csvText))
     /\ trim(Unescape(CellContent(csvText))) # <<>>)
    => results = OneRow(FirstHeader(csvText),
                        trim(Unescape(CellContent(csvText))))

\* The values stored in the rows of a table.
StoredValues(rows) ==
    UNION {{rows[r][p].v : p \in 1..Len(rows[r])} : r \in 1..Len(rows)}
CRsStored(rows) ==
    UNION {{<<r, p, q>> : q \in {c \in 1..Len(rows[r][p].v) :
                                   rows[r][p].v[c] = CR}} :
             <<r, p>> \in UNION {{<<r2, p2>> : p2 \in 1..Len(rows[r2])} :
                                   r2 \in 1..Len(rows)}}

\* C3 as stated: no stored value contains a carriage return.
C3_Original ==
    csvPc = "done" => \A v \in StoredValues(results) : CR \notin Chars(v)

\* C3 amended: parseCSV discards every carriage return outside a quoted
\* region and keeps every one inside a quoted region as content of the
\* logical line, so the carriage returns of the retained lines are exactly
\* those of the quoted regions, and a stored value contains a carriage
\* return only when the text has one inside a quoted region.
C3_UnquotedCRDiscarded ==
    /\ csvPc \in {"rows", "done"} =>
          Cardinality(Occurrences(lines, CR))
            = Cardinality(QuotedAt(csvText, CR))
    /\ csvPc = "done" =>
          Cardinality(CRsStored(results)) <= Cardinality(QuotedAt(csvText, CR))

C3_Witness ==
    /\ csvPc = "done"
    /\ UnquotedAt(csvText, CR) # {}
    /\ QuotedAt(csvText, CR) # {}
    /\ \E v \in StoredValues(results) : CR \in Chars(v)

\* The header sequence and the value sequence of data line d (d >= 2), as
\* parseCSV tokenizes them, and the positions that matter.
HeaderAt(i) == trim(parseCSVRow(lines[1])[i])
NumHeaders == Len(parseCSVRow(lines[1]))
ValuesOf(d) == parseCSVRow(lines[d])
\* Positions of d that pair a non-empty header with a non-empty value.
Live(d) ==
    {i \in 1..NumHeaders :
        /\ i <= Len(ValuesOf(d))
        /\ HeaderAt(i) # <<>>
        /\ trim(ValuesOf(d)[i]) # <<>>}
\* Those among them that create or update an entry of the row.
Stored(d) == {i \in Live(d) : HeaderAt(i) # ProtoName}
FirstOfName(d) ==
    {i \in Stored(d) : \A j \in Stored(d) : HeaderAt(j) = HeaderAt(i) => i <= j}
LastOfName(d, i) ==
    CHOOSE j \in Stored(d) :
        /\ HeaderAt(j) = HeaderAt(i)
        /\ \A m \in Stored(d) : HeaderAt(m) = HeaderAt(i) => m <= j
ExpectedRow(d) ==
    [n \in 1..Cardinality(FirstOfName(d)) |->
        LET i == Nth(FirstOfName(d), n)
        IN  [k |-> HeaderAt(i), v |-> trim(ValuesOf(d)[LastOfName(d, i)])]]
RetainedData == {d \in 2..Len(lines) : Live(d) # {}}
ExpectedRows ==
    [n \in 1..Cardinality(RetainedData) |-> ExpectedRow(Nth(RetainedData, n))]

\* C6: every row has at least one entry, every key is a non-empty trimmed
\* header of the header line, every value is non-empty and has no
\* surrounding white space, and a data line whose cells are all empty
\* gives no row.
C6_SparseRows ==
    csvPc = "done" =>
        /\ \A r \in 1..Len(results) :
              /\ Len(results[r]) >= 1
              /\ \A p \in 1..Len(results[r]) :
                    /\ results[r][p].k # <<>>
                    /\ \E i \in 1..NumHeaders : HeaderAt(i) = results[r][p].k
                    /\ results[r][p].v # <<>>
                    /\ trim(results[r][p].v) = results[r][p].v
        /\ Len(results) = Cardinality(RetainedData)

\* C7 as stated, for a text with one data line: every position that pairs a
\* non-empty header with a non-empty value is stored in the row, the trimmed
\* value under the trimmed header of the same position.
C7_Original ==
    (csvPc = "done" /\ Len(lines) = 2) =>
        \A i \in Live(2) :
            HeaderAt(i) # ProtoName =>
                /\ Len(results) = 1
                /\ HasKey(results[1], HeaderAt(i))
                /\ ValueOf(results[1], HeaderAt(i)) = trim(ValuesOf(2)[i])

\* C7 amended: the rows are those of the data lines that pair a non-empty
\* header with a non-empty value at some position below the number of
\* headers, in order; each row has one entry per header name of such a
\* position (none for the name __proto__), in the order of first
\* occurrence, holding the trimmed value of the last such position with
\* that name.  Values at positions at or beyond the number of headers and
\* headers beyond the last value contribute nothing.
C7_LastNonEmptyWins ==
    (csvPc = "done" /\ Len(lines) >= 2) => results = ExpectedRows

C7_Witness ==
    /\ csvPc = "done"
    /\ Len(lines) = 2
    /\ \E i, j \in Stored(2) :
          /\ i < j
          /\ HeaderAt(i) = HeaderAt(j)
          /\ trim(ValuesOf(2)[i]) # trim(ValuesOf(2)[j])
    /\ Len(ValuesOf(2)) > NumHeaders
    /\ Len(results) = 1

\* C8: a text with fewer than two retained logical lines (the empty text, a
\* text of white space only, a header line alone) gives the empty table and
\* no error; the retained lines are the non-blank logical lines of the text.
C8_DegenerateInput ==
    /\ csvPc \in {"rows", "done", "threw"}
          => Len(lines) = RetainedCount(csvText)
    /\ (csvPc \in {"done", "threw"} /\ RetainedCount(csvText) < 2)
       => (csvPc = "done" /\ results = <<>>)

C8_Witness ==
    /\ csvPc = "done"
    /\ RetainedCount(csvText) = 1
    /\ Len(csvText) > 1
    /\ results = <<>>

(***************************************************************************)
(* Properties of main                                                      *)
(***************************************************************************)
\* What the log tells: the sources whose fetch failed, the sources fetched.
Failed(c) ==
    \E p \in 1..Len(log) :
        log[p].event = "fetch_failed" /\ log[p].name = c.name
IsFetching(entry) == entry.event = "fetching"
Fetched ==
    LET fs == SelectSeq(log, IsFetching)
    IN  [n \in 1..Len(fs) |-> fs[n].name]
FetchErrors == {"network", "status", "body"}
PersistenceErrors == {"mkdir", "stringify", "write"}

\* C4: whatever sources fail to be fetched (the fetch rejects, the status is
\* not a success, the body cannot be read), the error is handled by the
\* inner catch and never reaches the outer one, every source is still
\* fetched, once and in order, and the snapshot written has the empty table
\* under each failed key and the parsed table under every other key; the
\* run that wrote it ends with exit code 0, and exit code 1 only follows a
\* failure of mkdir, stringify or write.
C4_FailureIsolation ==
    /\ thrown \in FetchErrors => pc = "inner_catch"
    /\ pc \in {"catch", "exited"} => thrown \in PersistenceErrors
    /\ exitCode # 0 => (pc = "exited" /\ thrown \in PersistenceErrors)
    /\ pc = "done" =>
          /\ exitCode = 0
          /\ artifact.kind = "snapshot"
          /\ Fetched = [n \in 1..Len(SHEET_CONFIGS) |-> SHEET_CONFIGS[n].name]
          /\ \A n \in 1..Len(SHEET_CONFIGS) :
                LET c == SHEET_CONFIGS[n]
                    sheets == artifact.content.sheets
                IN  /\ c.key \in DOMAIN sheets
                    /\ IF Failed(c)
                       THEN sheets[c.key] = <<>>
                       ELSE /\ c.key \in DOMAIN responses
                            /\ sheets[c.key] = parseCSV(responses[c.key]).rows

C4_Witness ==
    /\ pc = "done"
    /\ exitCode = 0
    /\ Failed(SHEET_CONFIGS[1])
    /\ ~Failed(SHEET_CONFIGS[2])
    /\ artifact.kind = "snapshot"
    /\ artifact.content.sheets["output"] = <<>>
    /\ artifact.content.sheets["ebitda_timeseries"]
         = << <<[k |-> <<"a">>, v |-> <<"a">>]>> >>

\* C5: a failure of mkdir, stringify or write always goes to the outer catch,
\* whose step is then enabled and ends the run with exit code 1, never 0;
\* until the write the artifact is what it was when the run started, so
\* after a failure of mkdir or stringify the earlier snapshot is unchanged,
\* and a partial file exists only when the write itself failed.
C5_FatalPersistence ==
    /\ thrown \in PersistenceErrors =>
          (pc = "exited" \/ (pc = "catch" /\ ENABLED Catch))
    /\ pc = "exited" => (exitCode = 1 /\ thrown \in PersistenceErrors)
    /\ pc = "done" => (exitCode = 0 /\ thrown = "none")
    /\ thrown \in {"mkdir", "stringify"} => artifact = artifact0
    /\ pc \in {"loop", "fetch", "text", "inner_catch", "mkdir", "write"}
          => artifact = artifact0
    /\ artifact = Truncated => thrown = "write"

C5_Witness ==
    /\ pc = "exited"
    /\ exitCode = 1
    /\ thrown = "stringify"
    /\ artifact0 = PriorSnapshot
    /\ artifact = PriorSnapshot

(***************************************************************************)
(* The loop of main (lines 148-157)                                        *)
(***************************************************************************)
ConfiguredKeys == {SHEET_CONFIGS[n].key : n \in 1..Len(SHEET_CONFIGS)}
KeysOfFirst(n) == {SHEET_CONFIGS[m].key : m \in 1..n}
IsSettled(entry) == entry.event \in {"rows", "fetch_failed"}
NumSettled == Len(SelectSeq(log, IsSettled))
WrittenByThisRun == artifact # artifact0 /\ artifact.kind = "snapshot"

C11_State ==
    /\ Len(Fetched) - NumSettled \in {0, 1}
    /\ \A n \in 1..Len(Fetched) :
          /\ n <= Len(SHEET_CONFIGS)
          /\ Fetched[n] = SHEET_CONFIGS[n].name
    /\ Len(Fetched) > 0 =>
          /\ KeysOfFirst(Len(Fetched) - 1) \subseteq DOMAIN sheetsData
          /\ DOMAIN sheetsData \subseteq KeysOfFirst(Len(Fetched))
    /\ Len(Fetched) = 0 => DOMAIN sheetsData = {}
    /\ WrittenByThisRun =>
          /\ DOMAIN artifact.content.sheets = ConfiguredKeys
          /\ Cardinality(DOMAIN artifact.content.sheets)
                = Len(SHEET_CONFIGS)

C11_Step ==
    /\ \A k \in DOMAIN sheetsData :
          k \in DOMAIN sheetsData' /\ sheetsData'[k] = sheetsData[k]
    /\ Cardinality(DOMAIN sheetsData' \ DOMAIN sheetsData) <= 1
    /\ DOMAIN sheetsData' # DOMAIN sheetsData =>
          /\ pc \in {"text", "inner_catch"}
          /\ DOMAIN sheetsData' = DOMAIN sheetsData \cup {config.key}
          /\ sheetsData'[config.key] = <<>>
                \/ (pc = "text" /\ \E text \in ResponseTexts :
                        sheetsData'[config.key] = parseCSV(text).rows)

\* C11: the sources are processed one at a time in the configured order: at
\* most one fetch has started and not settled, the fetch of source k+1 has
\* started only if the entry of source k is in the mapping, an entry once
\* written is never written again or removed (so each key is assigned once,
\* the parsed table or the empty one), and a snapshot written by the run
\* has exactly the configured keys.
C11_Sequential == [][C11_Step]_vars /\ []C11_State

C11_Witness ==
    /\ pc = "summary"
    /\ WrittenByThisRun
    /\ DOMAIN artifact.content.sheets = ConfiguredKeys
    /\ Failed(SHEET_CONFIGS[3])
    /\ artifact.content.sheets["mafia"] # <<>>
    /\ Len(Fetched) = Len(SHEET_CONFIGS)

(***************************************************************************)
(* The metadata (lines 159-172)                                            *)
(***************************************************************************)
Meta == artifact.content.meta

\* The number a sequence of decimal digits stands for.
DigitValue(c) == CHOOSE k \in 0..9 : digit(k) = c
IsDigits(s) == \A p \in 1..Len(s) : \E k \in 0..9 : digit(k) = s[p]
RECURSIVE DecimalValue(_)
DecimalValue(s) ==
    IF Len(s) = 0 THEN 0
    ELSE 10 * DecimalValue(SubSeq(s, 1, Len(s) - 1)) + DigitValue(s[Len(s)])

\* The quarter of a month of the calendar, 1..12.
QuarterOfMonth(m) ==
    CASE m \in {1, 2, 3} -> 1
      [] m \in {4, 5, 6} -> 2
      [] m \in {7, 8, 9} -> 3
      [] m \in {10, 11, 12} -> 4

\* C12: in a snapshot written by the run, with m in 1..12 the month and y the
\* year the clock showed in local time, reporting_quarter_number is
\* ceil(m / 3), a number of 1..4, reporting_year is y, and reporting_quarter
\* is the decimal digits of y, the letter Q and the digit of the quarter.
C12_ReportingPeriod ==
    WrittenByThisRun =>
        LET m == localFields(now).month
            y == localFields(now).year
            q == Meta.reporting_quarter_number
            rq == Meta.reporting_quarter
        IN  /\ m \in 1..12
            /\ q \in 1..4
            /\ 3 * (q - 1) < m /\ m <= 3 * q
            /\ q = QuarterOfMonth(m)
            /\ Meta.reporting_year = y
            /\ Len(rq) = 6
            /\ IsDigits(SubSeq(rq, 1, 4))
            /\ DecimalValue(SubSeq(rq, 1, 4)) = y
            /\ rq[5] = "Q"
            /\ rq[6] = digit(q)

C12_Witness ==
    /\ WrittenByThisRun
    /\ pc = "done"
    /\ now.month = 6 /\ now.day = 30 /\ now.hour = 23 /\ now.offset = 0
    /\ Meta.reporting_quarter = <<"2", "0", "2", "8", "Q", "2">>
    /\ Meta.reporting_quarter_number = 2
    /\ Meta.reporting_year = 2028

(***************************************************************************)
(* The order of the steps of main (lines 150-185)                          *)
(***************************************************************************)
AfterWrite == {"summary", "done", "catch", "exited"}
MetaFields ==
    {"generated_at", "source_sheet_id", "reporting_quarter", "reporting_year",
     "reporting_quarter_number", "schema_version"}

\* C13, as stated: the run reads the clock at most once, and only when the
\* last source has been processed; the artifact changes only after that.
C13_Original ==
    /\ clockReads <= 1
    /\ clockReads > 0 => (cfgIdx = Len(SHEET_CONFIGS) /\ now # NoDate)
    /\ artifact # artifact0 => now # NoDate

C13_State ==
    /\ clockReads = Len(Fetched) + (IF now = NoDate THEN 0 ELSE 1)
    /\ now # NoDate =>
          /\ cfgIdx = Len(SHEET_CONFIGS)
          /\ DOMAIN sheetsData = ConfiguredKeys
          /\ pc \in {"mkdir", "write"} \cup AfterWrite
    /\ artifact # artifact0 =>
          /\ now # NoDate
          /\ pc \in AfterWrite
          /\ \/ artifact = Truncated /\ thrown = "write"
             \/ /\ artifact.kind = "snapshot"
                /\ DOMAIN artifact.content = {"meta", "sheets", "config"}
                /\ DOMAIN Meta = MetaFields
                /\ Meta.generated_at = toISOString(now)
                /\ Meta.source_sheet_id = SHEET_ID
                /\ Meta.schema_version = "2.0"
                /\ artifact.content.sheets = sheetsData
                /\ artifact.content.config = [schema_version |-> "1.0"]

C13_Step ==
    /\ now # NoDate => now' = now
    /\ now' # now => (pc = "loop" /\ DOMAIN sheetsData = ConfiguredKeys)
    /\ artifact' # artifact => (pc = "write" /\ artifact = artifact0)
    /\ pc = "write" => pc' \in AfterWrite
    /\ pc \in AfterWrite => pc' \in AfterWrite

\* C13: the Date the metadata is computed from is constructed exactly once,
\* when every configured key has its entry, and never changes; the run has
\* read the clock once for each fetch it started (the cache buster) and once
\* more for that Date; the artifact changes at most once, in the write step
\* that follows, and what a successful write leaves is the snapshot of this
\* run alone: its six metadata fields, the mapping of this run and the
\* config block, whatever the file held before.
C13_SingleClockSingleWrite == [][C13_Step]_vars /\ []C13_State

C13_Witness ==
    /\ pc = "done"
    /\ artifact0 = PriorSnapshot
    /\ artifact # artifact0
    /\ artifact.kind = "snapshot"
    /\ clockReads = Len(SHEET_CONFIGS) + 1
    /\ Failed(SHEET_CONFIGS[1])
    /\ artifact.content.sheets["output"] = <<>>

(***************************************************************************)
(* The documented sheets (README, "Sheets fetched" and "Output JSON        *)
(* Structure")                                                             *)
(***************************************************************************)
DocumentedKeys ==
    {"output", "ebitda_timeseries", "revenue_timeseries",
     "employee_timeseries", "ev_timeseries", "mafia", "founders"}

\* C14: after a successful run the sheets mapping of the snapshot written has
\* exactly the seven documented keys, and exactly seven sheets were fetched.
C14_DocumentedSchema ==
    pc = "done" =>
        /\ DOMAIN artifact.content.sheets = DocumentedKeys
        /\ Len(Fetched) = Cardinality(DocumentedKeys)

(***************************************************************************)
(* The retained logical lines, character by character, stated on the text  *)
(* alone (lines 26-55)                                                     *)
(***************************************************************************)
\* The n-th retained segment of the text.
RetainedSegment(text, n) ==
    LET st == Nth(RetainedStarts(text), n)
    IN  SubSeq(text, st, LineEnd(text, st))

\* The characters of a segment that are not part of its assembled line: a
\* carriage return outside a quoted region, and the second quote of a
\* doubled quote inside one.
Dropped(seg) ==
    {p \in 1..Len(seg) :
        \/ seg[p] = CR /\ ~InQuotedRegion(seg, p)
        \/ /\ seg[p] = Quote
           /\ ~InQuotedRegion(seg, p)
           /\ p > 1
           /\ seg[p - 1] = Quote}
Assembled(seg) ==
    LET kept == (1..Len(seg)) \ Dropped(seg)
    IN  [n \in 1..Cardinality(kept) |-> seg[Nth(kept, n)]]

\* C15: the logical lines retained are, in order, the assembled segments of
\* the text that hold a character other than white space; no retained line
\* is blank, wherever the blank segments lie; the header sequence is the
\* trimmed fields of the first retained line; and the rows are, in order,
\* the rows of the retained data lines that have data.
C15_BlankLinesAndHeader ==
    /\ csvPc \in {"rows", "done"} =>
          /\ Len(lines) = RetainedCount(csvText)
          /\ \A n \in 1..Len(lines) :
                /\ trim(lines[n]) # <<>>
                /\ lines[n] = Assembled(RetainedSegment(csvText, n))
    /\ (csvPc = "done" /\ Len(lines) >= 2) =>
          /\ Len(results) = Cardinality(RetainedData)
          /\ \A r \in 1..Len(results) :
                LET d == Nth(RetainedData, r)
                    hs == parseCSVRow(Assembled(RetainedSegment(csvText, 1)))
                IN  /\ results[r] = ExpectedRow(d)
                    /\ \A p \in 1..Len(results[r]) :
                          \E i \in 1..Len(hs) : results[r][p].k = trim(hs[i])

C15_Witness ==
    /\ csvPc = "done"
    /\ Len(results) = 2
    /\ results[1] # results[2]
    /\ \E b \in LineStarts(csvText) \ RetainedStarts(csvText) :
          \E s1, s2 \in RetainedStarts(csvText) : 1 < s1 /\ s1 < b /\ b < s2

(***************************************************************************)
(* The two scanners on the same line (lines 29-36 and 90-96)               *)
(***************************************************************************)
NumQuotes(s) == Cardinality({p \in 1..Len(s) : s[p] = Quote})

\* C16: parseCSVRow splits each assembled line at exactly the commas that the
\* line splitter scanned outside a quoted region (so it returns one field
\* more than the segment has such commas), and when the quotes of the text
\* are balanced it ends every assembled line outside a quoted region.
C16_ScannersAgree ==
    csvPc \in {"rows", "done"} =>
        \A n \in 1..Len(lines) :
            LET seg == RetainedSegment(csvText, n)
            IN  /\ Len(parseCSVRow(lines[n]))
                      = 1 + Cardinality(UnquotedAt(seg, Comma))
                /\ NumQuotes(csvText) % 2 = 0
                      => ~rowLoop(lines[n], rowInit).inQuotes

(***************************************************************************)
(* Unbalanced quotes (lines 26-51 and 87-106)                              *)
(***************************************************************************)
\* The quotes of s that open a quoted region never closed: a quote met
\* outside a quoted region after which every quote met inside one is the
\* first of a doubled quote.  The unclosed quote is the first of them.
OpenQuotes(s) ==
    {p \in 1..Len(s) :
        /\ s[p] = Quote
        /\ ~InQuotedRegion(s, p)
        /\ \A r \in (p + 1)..Len(s) :
              (s[r] = Quote /\ InQuotedRegion(s, r))
                  => (r < Len(s) /\ s[r + 1] = Quote)}
OpenQuote(s) == CHOOSE p \in OpenQuotes(s) : \A q \in OpenQuotes(s) : p <= q

\* The content that follows the unclosed quote: every character after it,
\* a doubled quote counting as one quote.
AfterOpenQuote(s) ==
    LET kept == {p \in (OpenQuote(s) + 1)..Len(s) :
                    ~(s[p] = Quote /\ ~InQuotedRegion(s, p))}
    IN  [n \in 1..Cardinality(kept) |-> s[Nth(kept, n)]]
EndsWith(s, tail) ==
    /\ Len(s) >= Len(tail)
    /\ SubSeq(s, Len(s) - Len(tail) + 1, Len(s)) = tail

\* C17: no text makes parseCSV fail.  parseCSVRow returns the fields of a
\* line whose quotes are unbalanced, the last of them ending with the
\* content that follows the unclosed quote.  In a text with an unclosed
\* quote, the last retained line ends with everything that follows that
\* quote, line feeds included, so the retained lines are at most one more
\* than the line feeds that end a line before the quote, and the rows at
\* most as many as those line feeds.
C17_UnbalancedQuotes ==
    /\ csvPc # "threw"
    /\ csvPc \in {"rows", "done"} =>
          /\ \A n \in 1..Len(lines) :
                LET vs == parseCSVRow(lines[n])
                IN  /\ Len(vs) >= 1
                    /\ NumQuotes(lines[n]) % 2 = 1 =>
                          EndsWith(vs[Len(vs)], AfterOpenQuote(lines[n]))
          /\ NumQuotes(csvText) % 2 = 1 =>
                LET before == {p \in UnquotedAt(csvText, LF) :
                                  p < OpenQuote(csvText)}
                IN  /\ Len(lines) >= 1
                    /\ Len(lines) <= 1 + Cardinality(before)
                    /\ EndsWith(lines[Len(lines)], AfterOpenQuote(csvText))
                    /\ csvPc = "done" => Len(results) <= Cardinality(before)

C17_Witness ==
    /\ csvPc = "done"
    /\ NumQuotes(csvText) = 1
    /\ \E p \in (OpenQuote(csvText) + 1)..Len(csvText) : csvText[p] = LF
    /\ \E p \in (OpenQuote(csvText) + 1)..Len(csvText) : csvText[p] = Comma
    /\ Len(lines) = 2
    /\ NumQuotes(lines[2]) = 1
    /\ Len(results) = 1
    /\ \E v \in StoredValues(results) : LF \in Chars(v) /\ Comma \in Chars(v)

(***************************************************************************)
(* The end of a run (lines 142-206)                                        *)
(***************************************************************************)
Ended == pc \in {"done", "exited"}
AllNames == [n \in 1..Len(SHEET_CONFIGS) |-> SHEET_CONFIGS[n].name]

C18_Outcome ==
    /\ pc = "done" =>
          /\ exitCode = 0
          /\ WrittenByThisRun
          /\ log[Len(log)].event = "cache_complete"
    /\ pc = "exited" =>
          /\ exitCode = 1
          /\ log[Len(log)].event = "cache_failed"
          /\ \A p \in 1..Len(log) : log[p].event # "cache_complete"
    /\ ~Ended => exitCode = 0
    /\ Ended => Fetched = AllNames
    /\ \A m, n \in 1..Len(Fetched) : Fetched[m] = Fetched[n] => m = n

\* C18: when every step that stays possible is taken (each fetch and each
\* body read settles), the run ends: it reaches "done", with the artifact
\* written and exit code 0, or "exited", after the outer catch and with exit
\* code 1; nothing happens after either, so never both; and at the end
\* every configured source has been fetched exactly once, in order.
C18_Terminates ==
    /\ <>Ended
    /\ []C18_Outcome
    /\ [][~Ended]_vars

C18_Witness ==
    /\ pc = "exited"
    /\ exitCode = 1
    /\ thrown = "write"
    /\ Fetched = AllNames
    /\ Failed(SHEET_CONFIGS[2])
    /\ ~Failed(SHEET_CONFIGS[8])

(***************************************************************************)
(* Duplicate header names (lines 61-72)                                    *)
(***************************************************************************)
\* The positions of the header line that carry the name k, and those of
\* them at which data line d has a non-empty trimmed value.
PositionsOf(k) == {i \in 1..NumHeaders : HeaderAt(i) = k}
NonEmptyAt(d, k) ==
    {i \in PositionsOf(k) :
        i <= Len(ValuesOf(d)) /\ trim(ValuesOf(d)[i]) # <<>>}
Greatest(S) == CHOOSE x \in S : \A y \in S : y <= x
DistinctHeaders == {HeaderAt(i) : i \in 1..NumHeaders} \ {<<>>}

\* C19: in every row, no two entries have the same name; the value of an
\* entry is the trimmed value at the last position with that name at which
\* the data line is not empty, whatever empty cells follow it; a name
\* (other than __proto__, which never gets an entry) that has a non-empty
\* cell has its entry; and the row has at most as many entries as the
\* header line has distinct non-empty names.
C19_DuplicateHeaders ==
    (csvPc = "done" /\ Len(lines) >= 2) =>
        /\ Len(results) = Cardinality(RetainedData)
        /\ \A r \in 1..Len(results) :
              LET d == Nth(RetainedData, r)
                  obj == results[r]
              IN  /\ \A p, q \in 1..Len(obj) : obj[p].k = obj[q].k => p = q
                  /\ \A p \in 1..Len(obj) :
                        /\ NonEmptyAt(d, obj[p].k) # {}
                        /\ obj[p].v =
                             trim(ValuesOf(d)[Greatest(NonEmptyAt(d, obj[p].k))])
                  /\ \A k \in DistinctHeaders \ {ProtoName} :
                        NonEmptyAt(d, k) # {} => HasKey(obj, k)
                  /\ Len(obj) <= Cardinality(DistinctHeaders)

C19_Witness ==
    /\ csvPc = "done"
    /\ Len(lines) = 2
    /\ NumHeaders = 2
    /\ HeaderAt(1) = HeaderAt(2)
    /\ Len(ValuesOf(2)) = 2
    /\ trim(ValuesOf(2)[1]) = <<"a">>
    /\ trim(ValuesOf(2)[2]) = <<>>
    /\ results = << <<[k |-> <<"a">>, v |-> <<"a">>]>> >>

(***************************************************************************)
(* The metadata against its own time stamp (lines 159-172)                 *)
(***************************************************************************)
\* The year and the month written in an ISO time stamp YYYY-MM-DDTHH:...
YearOfStamp(g) == DecimalValue(SubSeq(g, 1, 4))
MonthOfStamp(g) == DecimalValue(SubSeq(g, 6, 7))

\* C20: in a snapshot written by the run, reporting_year is the year and
\* reporting_quarter_number the quarter of the instant that generated_at
\* records, whatever the clock shows and whatever the time zone is.
C20_MetaSelfConsistent ==
    WrittenByThisRun =>
        /\ Meta.reporting_year = YearOfStamp(Meta.generated_at)
        /\ Meta.reporting_quarter_number
              = QuarterOfMonth(MonthOfStamp(Meta.generated_at))

====
